---------------------------- MODULE Spec2Model ----------------------------
(***************************************************************************)
(* JobHuntAI: the App component's persistent collections and its file-sync *)
(* engine (services/geminiService.ts, lines 331-678 and 1181-1194).        *)
(*                                                                         *)
(* One action per event handler, timer callback or promise continuation.   *)
(* A handler's action includes the re-render it causes and the useEffect   *)
(* callbacks that run after that render (lines 138-140, 473-477 and        *)
(* 480-501).                                                               *)
(*                                                                         *)
(* Six specifications share the variables:                                 *)
(*   Spec       the file-sync engine and the handlers of the collections;  *)
(*   WritesSucceedSpec  the same on a file system whose writes succeed;    *)
(*   StoreSpec  useStickyState with its effects as separate steps and a    *)
(*              restart of the page (lines 133-142);                       *)
(*   ViewSpec   the filters, the sort configuration and the projections    *)
(*              derived from them (lines 558-626);                         *)
(*   EditSpec   the activity form, opened to add or to edit (lines         *)
(*              630-662);                                                  *)
(*   ContactSpec  the contacts dialog (components/ContactsModal.tsx).      *)
(***************************************************************************)
EXTENDS Integers, Sequences, FiniteSets, TLC

(***************************************************************************)
(* Bounds of the model.                                                    *)
(***************************************************************************)
MaxInFlight == 2    \* saveData invocations that may be awaiting at once

(***************************************************************************)
(* Records of types.ts.  JSON.stringify followed by JSON.parse returns a   *)
(* record of strings and string arrays field by field, so a record stands  *)
(* for itself inside file text.                                            *)
(***************************************************************************)
O1 == [id |-> "o1", employer |-> "Acme", position |-> "Engineer",
       role |-> "SWE", status |-> "Applied", createdAt |-> "2024-01-01"]
O2 == [id |-> "o2", employer |-> "Globex", position |-> "Analyst",
       role |-> "DA", status |-> "Identified", createdAt |-> "2024-02-01"]
\* a record of another origin under the identifier of O1
O1x == [id |-> "o1", employer |-> "Acme", position |-> "Engineer",
        role |-> "SWE", status |-> "Applied", createdAt |-> "2023-12-01"]
A1 == [id |-> "a1", opportunityId |-> "o1", title |-> "Applied online",
       date |-> "2024-01-02", contactIds |-> <<"k1">>, description |-> ""]
A2 == [id |-> "a2", opportunityId |-> "o2", title |-> "Recruiter call",
       date |-> "2024-02-02", contactIds |-> <<>>, description |-> "call"]
K1 == [id |-> "k1", name |-> "Sarah", role |-> "Recruiter",
       company |-> "Acme", email |-> "", phone |-> "", notes |-> ""]
\* a contact with every optional field filled in
K2 == [id |-> "k2", name |-> "Raj", role |-> "Hiring Manager",
       company |-> "Globex", email |-> "raj@globex.example",
       phone |-> "555-0100", notes |-> "met at a meetup"]

\* more activities: one on the date of A2, and one whose opportunity is not
\* in any collection
A3 == [id |-> "a3", opportunityId |-> "o1", title |-> "Phone screen",
       date |-> "2024-02-02", contactIds |-> <<"k1">>, description |-> ""]
A4 == [id |-> "a4", opportunityId |-> "o9", title |-> "Lost lead",
       date |-> "2024-03-01", contactIds |-> <<>>, description |-> "acme"]

(***************************************************************************)
(* JavaScript values.  A property that may be undefined is a sequence of   *)
(* length at most one: Undefined, or Arr(s) for the array s.  An array is  *)
(* truthy even when it is empty.                                           *)
(***************************************************************************)
Undefined == <<>>
Arr(s) == <<s>>
OrElse(a, b) == IF a # Undefined THEN a ELSE b          \* a || b
ArrOrEmpty(a) == IF a # Undefined THEN a[1] ELSE <<>>   \* a || []
HasElements(a) == a # Undefined /\ Len(a[1]) > 0        \* a && a.length > 0
LengthOrZero(a) == IF a # Undefined THEN Len(a[1]) ELSE 0 \* a?.length || 0

(***************************************************************************)
(* A parsed JSON value: an object with the five properties the code reads, *)
(* the value null, or the number 0 (a falsy primitive, whose properties    *)
(* all read as undefined).                                                 *)
(***************************************************************************)
Obj(opps, legacyOps, actsNew, legacyActs, cons) ==
  [kind |-> "object", opportunities |-> opps, ops |-> legacyOps,
   activities |-> actsNew, acts |-> legacyActs, contacts |-> cons]
JsonNull == [kind |-> "null", opportunities |-> Undefined, ops |-> Undefined,
             activities |-> Undefined, acts |-> Undefined,
             contacts |-> Undefined]
JsonZero == [kind |-> "zero", opportunities |-> Undefined, ops |-> Undefined,
             activities |-> Undefined, acts |-> Undefined,
             contacts |-> Undefined]
Truthy(v) == v.kind = "object"
NoConflict == JsonNull        \* useState(null), setConflictData(null)

\* { opportunities: [], activities: [], contacts: [] }
EmptyFileData == Obj(Arr(<<>>), Undefined, Arr(<<>>), Undefined, Arr(<<>>))

(***************************************************************************)
(* File text: the empty string, text JSON.parse rejects, or the text of a  *)
(* JSON value.                                                             *)
(***************************************************************************)
EmptyText == [kind |-> "empty", val |-> JsonNull]
BadText == [kind |-> "bad", val |-> JsonNull]
JsonText(v) == [kind |-> "json", val |-> v]

\* JSON.stringify({ opportunities, activities, contacts }, null, 2)
Stringify(o, a, c) == JsonText(Obj(Arr(o), Undefined, Arr(a), Undefined, Arr(c)))

\* text ? JSON.parse(text) : {...}, with the catch clause
ParseFile(text) ==
  IF text.kind = "json" THEN text.val ELSE EmptyFileData

(***************************************************************************)
(* Texts a user may select.                                                *)
(***************************************************************************)
SampleTexts ==
  { EmptyText, BadText, JsonText(JsonNull), JsonText(JsonZero),
    Stringify(<<O2>>, <<A2>>, <<>>),
    Stringify(<<>>, <<A2>>, <<K1>>),
    Stringify(<<O1x>>, <<>>, <<>>),
    JsonText(Obj(Undefined, Arr(<<O2>>), Undefined, Arr(<<A2>>), Undefined)),
    JsonText(Obj(Arr(<<>>), Arr(<<O2>>), Arr(<<A2>>), Arr(<<>>), Arr(<<K1>>))) }

VARIABLES
  opportunities, activities, contacts,   \* useStickyState collections
  isActivityModalOpen, editingActivity,  \* activity form state
  fileHandle,          \* "null" or "file"
  syncStatus,          \* 'idle' | 'saving' | 'saved' | 'error'
  hasUnsavedChanges,
  conflictData,        \* NoConflict or the parsed file data
  timeoutId,           \* the debounce timer of the auto-save effect
  inFlight,            \* snapshots of saveData calls that have not settled
  picker,              \* a file selection whose read has not completed
  disk,                \* text of the file behind the handle
  theme,               \* useStickyState theme
  localStorage,        \* window.localStorage, the four keys of the app
  viewMode,            \* 'timeline' | 'opportunities'
  filterText, selectedEmployer, selectedContact,   \* top bar filters
  sortConfig, columnFilters,                       \* roster table
  isEditing, formData                  \* the form of the contacts dialog

\* ContactsModal.tsx, lines 21-22
formVars == << isEditing, formData >>

\* the state of the views and of the contacts form, which no handler of the
\* collections assigns
viewVars == << viewMode, filterText, selectedEmployer, selectedContact,
               sortConfig, columnFilters, formVars >>

vars == << opportunities, activities, contacts, isActivityModalOpen,
           editingActivity, fileHandle, syncStatus, hasUnsavedChanges,
           conflictData, timeoutId, inFlight, picker, disk, theme,
           localStorage, viewVars >>

NoTimer == [armed |-> FALSE, data |-> << <<>>, <<>>, <<>> >>]
NoPicker == [open |-> FALSE, live |-> FALSE, localHasData |-> FALSE]
NoActivity == <<>>

Ids(s) == { s[i].id : i \in 1..Len(s) }
Range(s) == { s[i] : i \in 1..Len(s) }

(***************************************************************************)
(* useStickyState, lines 133-142.  Each of the four states is written to   *)
(* its localStorage key by an effect that runs after every render in which *)
(* the value changed, in the order of the declarations (lines 333-336).    *)
(* An item is absent (getItem returns null) or the JSON text of a value;   *)
(* the values are records of strings and arrays of them, which             *)
(* JSON.parse(JSON.stringify(v)) returns unchanged.                        *)
(***************************************************************************)
THEMES == << [name |-> "Professional", primary |-> "indigo", base |-> "slate"],
             [name |-> "Vibrant", primary |-> "fuchsia", base |-> "zinc"],
             [name |-> "Ocean", primary |-> "cyan", base |-> "slate"],
             [name |-> "Forest", primary |-> "emerald", base |-> "stone"],
             [name |-> "Sunset", primary |-> "orange", base |-> "stone"] >>

StorageKeys == << "jobhunt-ops", "jobhunt-acts", "jobhunt-contacts",
                  "jobhunt-theme" >>
KeySet == { StorageKeys[i] : i \in 1..Len(StorageKeys) }

NoItem == <<>>                         \* getItem(key) === null
JSONstringify(v) == << v >>
JSONparse(item) == item[1]

\* line 136
StickyInitial(defaultValue, item) ==
  IF item # NoItem THEN JSONparse(item) ELSE defaultValue

\* the value of the state declared with the key, in the render given by the
\* four values
StickyValue(key, o, a, c, t) ==
  CASE key = "jobhunt-ops" -> o
    [] key = "jobhunt-acts" -> a
    [] key = "jobhunt-contacts" -> c
    [] key = "jobhunt-theme" -> t

\* localStorage after the four effects of lines 138-140 have run
Committed(o, a, c, t) ==
  [key \in KeySet |-> JSONstringify(StickyValue(key, o, a, c, t))]

\* the effects of lines 138-140 after the render that ends a handler
stickyEffects ==
  localStorage' = Committed(opportunities', activities', contacts', theme')


(***************************************************************************)
(* The two effects of App.  changed says whether a dependency of the       *)
(* effect received a new value in the render that precedes it.             *)
(***************************************************************************)

\* lines 473-477; dirty is the value the handler itself left
UnsavedChangesEffect(changed, o, a, dirty) ==
  IF changed /\ (Len(o) > 0 \/ Len(a) > 0) THEN TRUE ELSE dirty

\* AutoSaveEffect without the test of conflictData in its guard.
AutoSaveEffect_IgnoresConflict(changed, fh, cd, o, a, c) ==
  IF ~changed THEN timeoutId
  ELSE IF fh = "null" THEN NoTimer
  ELSE [armed |-> TRUE, data |-> <<o, a, c>>]

\* AutoSaveEffect without the cleanup's effect on the write: a timer that is
\* already pending is kept, with the snapshot it was armed with.
AutoSaveEffect_KeepsPendingTimer(changed, fh, cd, o, a, c) ==
  IF ~changed THEN timeoutId
  ELSE IF fh = "null" \/ Truthy(cd) THEN NoTimer
  ELSE IF timeoutId.armed THEN timeoutId
  ELSE [armed |-> TRUE, data |-> <<o, a, c>>]

\* lines 480-501: cleanup clears the previous timer, then the guard of line
\* 481 decides whether setTimeout(saveData, 1000) is called
AutoSaveEffect(changed, fh, cd, o, a, c) ==
  IF ~changed THEN timeoutId
  ELSE IF fh = "null" \/ Truthy(cd) THEN NoTimer
  ELSE [armed |-> TRUE, data |-> <<o, a, c>>]

\* useState<Partial<Contact>>({}): an object with no property
NoFields == [f \in {} |-> ""]

\* ContactsModal.tsx, lines 21-22
InitialForm ==
  /\ isEditing = FALSE
  /\ formData = NoFields

\* lines 361-371
InitialView ==
  /\ viewMode = "timeline"
  /\ filterText = ""
  /\ selectedEmployer = "All"
  /\ selectedContact = "All"
  /\ sortConfig = [key |-> "lastActivity", direction |-> "desc"]
  /\ columnFilters = [employer |-> "", role |-> "", status |-> ""]

Init ==
  /\ opportunities = <<>>
  /\ activities = <<>>
  /\ contacts = <<>>
  /\ isActivityModalOpen = FALSE
  /\ editingActivity = NoActivity
  /\ fileHandle = "null"
  /\ syncStatus = "idle"
  /\ hasUnsavedChanges = FALSE
  /\ conflictData = NoConflict
  /\ timeoutId = NoTimer
  /\ inFlight = <<>>
  /\ picker = NoPicker
  /\ disk \in SampleTexts
  /\ theme = THEMES[1]
  /\ localStorage = Committed(<<>>, <<>>, <<>>, THEMES[1])
  /\ InitialView
  /\ InitialForm

(***************************************************************************)
(* File selection.  The "Open" button is rendered only while fileHandle is *)
(* null (line 792) and lies under the conflict dialog while one is shown   *)
(* (line 175); the browser shows one file dialog at a time.  The handler   *)
(* that is invoked, and the processFileContent it calls after its awaits,  *)
(* belong to the render in which the selection was made, so the value of   *)
(* opportunities they read is the one of that render.  A dialog that is    *)
(* dismissed assigns nothing (lines 396 and 408) and is left out.          *)
(***************************************************************************)
handleConnectFile ==
  /\ fileHandle = "null"
  /\ ~Truthy(conflictData)
  /\ ~picker.open
  /\ \E live \in BOOLEAN :
       picker' = [open |-> TRUE, live |-> live,
                  localHasData |-> Len(opportunities) > 0]
  /\ UNCHANGED << opportunities, activities, contacts, isActivityModalOpen,
                  editingActivity, fileHandle, syncStatus, hasUnsavedChanges,
                  conflictData, timeoutId, inFlight, disk >>
  /\ UNCHANGED << theme, viewVars >>
  /\ stickyEffects

\* FileHasData looking at the current field name only.
FileHasData_CurrentNameOnly(fileData) ==
  HasElements(fileData.opportunities)

\* line 427
FileHasData(fileData) ==
  HasElements(fileData.opportunities) \/ HasElements(fileData.ops)

\* lines 431-433
AdoptedOpportunities(fileData) ==
  ArrOrEmpty(OrElse(fileData.opportunities, fileData.ops))
\* AdoptedActivities reading the current field name only.
AdoptedActivities_CurrentNameOnly(fileData) ==
  ArrOrEmpty(fileData.activities)
AdoptedActivities(fileData) ==
  ArrOrEmpty(OrElse(fileData.activities, fileData.acts))
AdoptedContacts(fileData) == ArrOrEmpty(fileData.contacts)

\* lines 419-453, called with the text read from the selected file
processFileContent(text, live) ==
  LET fileData == ParseFile(text)
      localHasData == picker.localHasData
      handle == IF live THEN "file" ELSE fileHandle
  IN
  /\ picker' = NoPicker
  /\ UNCHANGED << isActivityModalOpen, editingActivity, inFlight, disk >>
  /\ IF fileData.kind = "null"
     THEN \* line 427 reads a property of null: TypeError, nothing is set
          UNCHANGED << opportunities, activities, contacts, fileHandle,
                       syncStatus, hasUnsavedChanges, conflictData,
                       timeoutId >>
     ELSE IF ~localHasData /\ FileHasData(fileData)
     THEN /\ opportunities' = AdoptedOpportunities(fileData)
          /\ activities' = AdoptedActivities(fileData)
          /\ contacts' = AdoptedContacts(fileData)
          /\ hasUnsavedChanges' =
               UnsavedChangesEffect(TRUE, opportunities', activities', FALSE)
          /\ fileHandle' = handle
          /\ syncStatus' = IF live THEN "saved" ELSE syncStatus
          /\ conflictData' = conflictData
          /\ timeoutId' = AutoSaveEffect(TRUE, handle, conflictData,
                            opportunities', activities', contacts')
     ELSE IF localHasData
     THEN /\ conflictData' = fileData
          /\ fileHandle' = handle
          /\ timeoutId' = AutoSaveEffect(live \/ conflictData' # conflictData,
                            handle, fileData,
                            opportunities, activities, contacts)
          /\ UNCHANGED << opportunities, activities, contacts, syncStatus,
                          hasUnsavedChanges >>
     ELSE /\ fileHandle' = handle
          /\ syncStatus' = IF live THEN "saved" ELSE syncStatus
          /\ hasUnsavedChanges' = IF live THEN FALSE ELSE hasUnsavedChanges
          /\ timeoutId' = AutoSaveEffect(live, handle, conflictData,
                            opportunities, activities, contacts)
          /\ UNCHANGED << opportunities, activities, contacts, conflictData >>
  /\ UNCHANGED << theme, viewVars >>
  /\ stickyEffects

\* lines 392-394: the text of the file behind the granted handle
connectFileRead ==
  /\ picker.open /\ picker.live
  /\ processFileContent(disk, TRUE)

\* lines 411-414: reader.onload of the one-shot import
manualImportLoad ==
  /\ picker.open /\ ~picker.live
  /\ \E text \in SampleTexts : processFileContent(text, FALSE)


(***************************************************************************)
(* The conflict dialog, rendered while conflictData is truthy (line 1181). *)
(***************************************************************************)

\* lines 1184-1187
FileStats(cd) ==
  [ops |-> IF cd.ops # Undefined
           THEN Len(cd.ops[1])
           ELSE LengthOrZero(cd.opportunities),
   acts |-> IF cd.acts # Undefined
            THEN Len(cd.acts[1])
            ELSE LengthOrZero(cd.activities)]

fileStats == FileStats(conflictData)

\* line 1183
localStats == [ops |-> Len(opportunities), acts |-> Len(activities)]

\* handleKeepLocal dropping the handle as well, as onCancel does.
handleKeepLocal_DropsHandle ==
  /\ Truthy(conflictData)
  /\ conflictData' = NoConflict
  /\ fileHandle' = "null"
  /\ timeoutId' = AutoSaveEffect(TRUE, "null", NoConflict,
                    opportunities, activities, contacts)
  /\ UNCHANGED << opportunities, activities, contacts, isActivityModalOpen,
                  editingActivity, syncStatus, hasUnsavedChanges, inFlight,
                  picker, disk >>
  /\ UNCHANGED << theme, viewVars >>
  /\ stickyEffects

\* lines 455-460
handleKeepLocal ==
  /\ Truthy(conflictData)
  /\ conflictData' = NoConflict
  /\ timeoutId' = AutoSaveEffect(TRUE, fileHandle, NoConflict,
                    opportunities, activities, contacts)
  /\ UNCHANGED << opportunities, activities, contacts, isActivityModalOpen,
                  editingActivity, fileHandle, syncStatus, hasUnsavedChanges,
                  inFlight, picker, disk >>
  /\ UNCHANGED << theme, viewVars >>
  /\ stickyEffects

\* ImportedOpportunities merging the file's records after the local ones.
ImportedOpportunities_Merged(cd) ==
  opportunities \o ArrOrEmpty(OrElse(cd.ops, cd.opportunities))

\* lines 464-466
ImportedOpportunities(cd) == ArrOrEmpty(OrElse(cd.ops, cd.opportunities))
ImportedActivities(cd) == ArrOrEmpty(OrElse(cd.acts, cd.activities))
ImportedContacts(cd) == ArrOrEmpty(cd.contacts)

\* lines 462-470
handleImportFile ==
  /\ Truthy(conflictData)
  /\ opportunities' = ImportedOpportunities(conflictData)
  /\ activities' = ImportedActivities(conflictData)
  /\ contacts' = ImportedContacts(conflictData)
  /\ conflictData' = NoConflict
  /\ hasUnsavedChanges' =
       UnsavedChangesEffect(TRUE, opportunities', activities', FALSE)
  /\ timeoutId' = AutoSaveEffect(TRUE, fileHandle, NoConflict,
                    opportunities', activities', contacts')
  /\ UNCHANGED << isActivityModalOpen, editingActivity, fileHandle,
                  syncStatus, inFlight, picker, disk >>
  /\ UNCHANGED << theme, viewVars >>
  /\ stickyEffects

\* onCancel without setFileHandle(null).
onCancel_KeepsHandle ==
  /\ Truthy(conflictData)
  /\ conflictData' = NoConflict
  /\ timeoutId' = AutoSaveEffect(TRUE, fileHandle, NoConflict,
                    opportunities, activities, contacts)
  /\ UNCHANGED << opportunities, activities, contacts, isActivityModalOpen,
                  editingActivity, fileHandle, syncStatus, hasUnsavedChanges,
                  inFlight, picker, disk >>
  /\ UNCHANGED << theme, viewVars >>
  /\ stickyEffects

\* line 1190
onCancel ==
  /\ Truthy(conflictData)
  /\ conflictData' = NoConflict
  /\ fileHandle' = "null"
  /\ timeoutId' = AutoSaveEffect(TRUE, "null", NoConflict,
                    opportunities, activities, contacts)
  /\ UNCHANGED << opportunities, activities, contacts, isActivityModalOpen,
                  editingActivity, syncStatus, hasUnsavedChanges, inFlight,
                  picker, disk >>
  /\ UNCHANGED << theme, viewVars >>
  /\ stickyEffects

(***************************************************************************)
(* saveData, lines 483-497.  The timer callback runs up to the first await *)
(* (setSyncStatus('saving')); the data it writes is the snapshot of the    *)
(* render that armed the timer.  Nothing is assigned between the awaits of *)
(* createWritable, write and close, and close is what replaces the file,   *)
(* so the three awaits settle in one step: either all resolve or one of    *)
(* them rejects.                                                           *)
(***************************************************************************)
RemoveAt(s, i) == SubSeq(s, 1, i - 1) \o SubSeq(s, i + 1, Len(s))

saveData ==
  /\ timeoutId.armed
  /\ Len(inFlight) < MaxInFlight
  /\ syncStatus' = "saving"
  /\ inFlight' = Append(inFlight, timeoutId.data)
  /\ timeoutId' = NoTimer
  /\ UNCHANGED << opportunities, activities, contacts, isActivityModalOpen,
                  editingActivity, fileHandle, hasUnsavedChanges,
                  conflictData, picker, disk >>
  /\ UNCHANGED << theme, viewVars >>
  /\ stickyEffects

\* lines 486-492
saveDataResolved(i) ==
  /\ i \in 1..Len(inFlight)
  /\ disk' = Stringify(inFlight[i][1], inFlight[i][2], inFlight[i][3])
  /\ syncStatus' = "saved"
  /\ hasUnsavedChanges' = FALSE
  /\ inFlight' = RemoveAt(inFlight, i)
  /\ UNCHANGED << opportunities, activities, contacts, isActivityModalOpen,
                  editingActivity, fileHandle, conflictData, timeoutId,
                  picker >>
  /\ UNCHANGED << theme, viewVars >>
  /\ stickyEffects

\* saveDataRejected giving up the connection: the catch clause also drops
\* the handle, and the effect that follows clears the timer.
saveDataRejected_Disconnects(i) ==
  /\ i \in 1..Len(inFlight)
  /\ syncStatus' = "error"
  /\ fileHandle' = "null"
  /\ timeoutId' = NoTimer
  /\ inFlight' = RemoveAt(inFlight, i)
  /\ UNCHANGED << opportunities, activities, contacts, isActivityModalOpen,
                  editingActivity, hasUnsavedChanges, conflictData, picker,
                  disk >>
  /\ UNCHANGED << theme, viewVars >>
  /\ stickyEffects

\* lines 493-496
saveDataRejected(i) ==
  /\ i \in 1..Len(inFlight)
  /\ syncStatus' = "error"
  /\ inFlight' = RemoveAt(inFlight, i)
  /\ UNCHANGED << opportunities, activities, contacts, isActivityModalOpen,
                  editingActivity, fileHandle, hasUnsavedChanges,
                  conflictData, timeoutId, picker, disk >>
  /\ UNCHANGED << theme, viewVars >>
  /\ stickyEffects

\* lines 503-506; the button is rendered while fileHandle is null
handleManualDownload ==
  /\ fileHandle = "null"
  /\ hasUnsavedChanges' = FALSE
  /\ UNCHANGED << opportunities, activities, contacts, isActivityModalOpen,
                  editingActivity, fileHandle, syncStatus, conflictData,
                  timeoutId, inFlight, picker, disk >>
  /\ UNCHANGED << theme, viewVars >>
  /\ stickyEffects

(***************************************************************************)
(* Changes to the collections.  Every setter below is called with a new    *)
(* array, so each of these handlers re-runs the effects that depend on the *)
(* collection it sets.                                                     *)
(***************************************************************************)

\* lines 630-634
openAddActivity ==
  /\ ~isActivityModalOpen
  /\ editingActivity' = NoActivity
  /\ isActivityModalOpen' = TRUE
  /\ UNCHANGED << opportunities, activities, contacts, fileHandle,
                  syncStatus, hasUnsavedChanges, conflictData, timeoutId,
                  inFlight, picker, disk >>
  /\ UNCHANGED << theme, viewVars >>
  /\ stickyEffects

\* line 650
ReplaceById(s, x) == [i \in 1..Len(s) |-> IF s[i].id = x.id THEN x ELSE s[i]]

\* line 660 and line 676
RemoveById(s, id) == SelectSeq(s, LAMBDA x : x.id # id)

\* What the activity form submits: an activity with a fresh identifier,
\* optionally with a new opportunity and new contacts, fresh as well.
SaveActivityInputs ==
  { [activity |-> A1, newOpportunity |-> no, newContacts |-> nc] :
      no \in { Undefined } \cup
             { Arr(o) : o \in { x \in {O1} : x.id \notin Ids(opportunities) } },
      nc \in { <<>> } \cup
             { <<k>> : k \in { x \in {K1} : x.id \notin Ids(contacts) } } }

\* lines 643-645
WithNewOpportunity(prev, data) ==
  IF data.newOpportunity # Undefined
  THEN Append(prev, data.newOpportunity[1])
  ELSE prev

\* lines 646-648
WithNewContacts(prev, data) ==
  IF Len(data.newContacts) > 0 THEN prev \o data.newContacts ELSE prev

\* WithActivity taking the branch of a new activity also when one is edited.
WithActivity_AppendsAlways(prev, data) ==
  Append(prev, data.activity)

\* lines 649-653
WithActivity(prev, data) ==
  IF editingActivity # NoActivity
  THEN ReplaceById(prev, data.activity)
  ELSE Append(prev, data.activity)

\* lines 642-656
handleSaveActivity(data) ==
  /\ isActivityModalOpen
  /\ editingActivity # NoActivity \/ data.activity.id \notin Ids(activities)
  /\ opportunities' = WithNewOpportunity(opportunities, data)
  /\ contacts' = WithNewContacts(contacts, data)
  /\ activities' = WithActivity(activities, data)
  /\ isActivityModalOpen' = FALSE
  /\ hasUnsavedChanges' = TRUE
  /\ timeoutId' = AutoSaveEffect(TRUE, fileHandle, conflictData,
                    opportunities', activities', contacts')
  /\ UNCHANGED << editingActivity, fileHandle, syncStatus, conflictData,
                  inFlight, picker, disk >>
  /\ UNCHANGED << theme, viewVars >>
  /\ stickyEffects

\* lines 658-662, the confirmation accepted
handleDeleteActivity(id) ==
  /\ id \in Ids(activities)
  /\ activities' = RemoveById(activities, id)
  /\ hasUnsavedChanges' =
       UnsavedChangesEffect(TRUE, opportunities, activities',
                            hasUnsavedChanges)
  /\ timeoutId' = AutoSaveEffect(TRUE, fileHandle, conflictData,
                    opportunities, activities', contacts)
  /\ UNCHANGED << opportunities, contacts, isActivityModalOpen,
                  editingActivity, fileHandle, syncStatus, conflictData,
                  inFlight, picker, disk >>
  /\ UNCHANGED << theme, viewVars >>
  /\ stickyEffects

\* lines 664-672
SavedContacts(prev, contact) ==
  IF \E i \in 1..Len(prev) : prev[i].id = contact.id
  THEN ReplaceById(prev, contact)
  ELSE Append(prev, contact)

handleSaveContact(contact) ==
  /\ contacts' = SavedContacts(contacts, contact)
  /\ hasUnsavedChanges' =
       UnsavedChangesEffect(TRUE, opportunities, activities,
                            hasUnsavedChanges)
  /\ timeoutId' = AutoSaveEffect(TRUE, fileHandle, conflictData,
                    opportunities, activities, contacts')
  /\ UNCHANGED << opportunities, activities, isActivityModalOpen,
                  editingActivity, fileHandle, syncStatus, conflictData,
                  inFlight, picker, disk >>
  /\ UNCHANGED << theme, viewVars >>
  /\ stickyEffects

\* handleDeleteContact cascading: the contact is also taken out of the
\* contactIds of every activity.
handleDeleteContact_Cascades(id) ==
  /\ id \in Ids(contacts)
  /\ contacts' = RemoveById(contacts, id)
  /\ activities' =
       [i \in 1..Len(activities) |->
          [activities[i] EXCEPT
             !.contactIds = SelectSeq(@, LAMBDA c : c # id)]]
  /\ hasUnsavedChanges' =
       UnsavedChangesEffect(TRUE, opportunities, activities',
                            hasUnsavedChanges)
  /\ timeoutId' = AutoSaveEffect(TRUE, fileHandle, conflictData,
                    opportunities, activities', contacts')
  /\ UNCHANGED << opportunities, isActivityModalOpen,
                  editingActivity, fileHandle, syncStatus, conflictData,
                  inFlight, picker, disk >>
  /\ UNCHANGED << theme, viewVars >>
  /\ stickyEffects

\* lines 674-678, the confirmation accepted
handleDeleteContact(id) ==
  /\ id \in Ids(contacts)
  /\ contacts' = RemoveById(contacts, id)
  /\ hasUnsavedChanges' =
       UnsavedChangesEffect(TRUE, opportunities, activities,
                            hasUnsavedChanges)
  /\ timeoutId' = AutoSaveEffect(TRUE, fileHandle, conflictData,
                    opportunities, activities, contacts')
  /\ UNCHANGED << opportunities, activities, isActivityModalOpen,
                  editingActivity, fileHandle, syncStatus, conflictData,
                  inFlight, picker, disk >>
  /\ UNCHANGED << theme, viewVars >>
  /\ stickyEffects

Next ==
  \/ handleConnectFile
  \/ connectFileRead
  \/ manualImportLoad
  \/ handleKeepLocal
  \/ handleImportFile
  \/ onCancel
  \/ saveData
  \/ \E i \in 1..MaxInFlight : saveDataResolved(i)
  \/ \E i \in 1..MaxInFlight : saveDataRejected(i)
  \/ handleManualDownload
  \/ openAddActivity
  \/ \E data \in SaveActivityInputs : handleSaveActivity(data)
  \/ \E id \in Ids(activities) : handleDeleteActivity(id)
  \/ \E contact \in {K1} : handleSaveContact(contact)
  \/ \E id \in Ids(contacts) : handleDeleteContact(id)

Spec == Init /\ [][Next]_vars

(***************************************************************************)
(* The engine on a file system whose writes all succeed: createWritable,   *)
(* write and close resolve (lines 486-491), the catch clause of line 494   *)
(* is not entered.                                                         *)
(***************************************************************************)
WritesSucceedNext ==
  \/ handleConnectFile
  \/ connectFileRead
  \/ manualImportLoad
  \/ handleKeepLocal
  \/ handleImportFile
  \/ onCancel
  \/ saveData
  \/ \E i \in 1..MaxInFlight : saveDataResolved(i)
  \/ handleManualDownload
  \/ openAddActivity
  \/ \E data \in SaveActivityInputs : handleSaveActivity(data)
  \/ \E id \in Ids(activities) : handleDeleteActivity(id)
  \/ \E contact \in {K1} : handleSaveContact(contact)
  \/ \E id \in Ids(contacts) : handleDeleteContact(id)

WritesSucceedSpec == Init /\ [][WritesSucceedNext]_vars

(***************************************************************************)
(* The persistent store by itself: the four sticky states with the effects *)
(* that write them as steps of their own, and a restart of the page.  The  *)
(* effects of one render run one after the other before the next event is *)
(* handled; only the end of the process can fall between them.  No file is *)
(* connected here.                                                         *)
(***************************************************************************)

\* the effect of the key has nothing to write
Written(key) ==
  localStorage[key] =
    JSONstringify(StickyValue(key, opportunities, activities, contacts, theme))

AllWritten == \A key \in KeySet : Written(key)

\* A first visit: nothing is stored, every state has its default (line 136)
StoreInit ==
  /\ localStorage = [key \in KeySet |-> NoItem]
  /\ opportunities = StickyInitial(<<>>, localStorage["jobhunt-ops"])
  /\ activities = StickyInitial(<<>>, localStorage["jobhunt-acts"])
  /\ contacts = StickyInitial(<<>>, localStorage["jobhunt-contacts"])
  /\ theme = StickyInitial(THEMES[1], localStorage["jobhunt-theme"])
  /\ isActivityModalOpen = FALSE
  /\ editingActivity = NoActivity
  /\ fileHandle = "null"
  /\ syncStatus = "idle"
  /\ hasUnsavedChanges = FALSE
  /\ conflictData = NoConflict
  /\ timeoutId = NoTimer
  /\ inFlight = <<>>
  /\ picker = NoPicker
  /\ disk = EmptyText
  /\ InitialView
  /\ InitialForm

\* lines 138-140: the effect of one key, in the order of the declarations
stickyEffect(key) ==
  /\ ~Written(key)
  /\ \A i, j \in 1..Len(StorageKeys) :
       (StorageKeys[j] = key /\ i < j) => Written(StorageKeys[i])
  /\ localStorage' =
       [localStorage EXCEPT ![key] =
          JSONstringify(StickyValue(key, opportunities, activities,
                                    contacts, theme))]
  /\ UNCHANGED << opportunities, activities, contacts, isActivityModalOpen,
                  editingActivity, fileHandle, syncStatus, hasUnsavedChanges,
                  conflictData, timeoutId, inFlight, picker, disk, theme,
                  viewVars >>

\* Values the handlers pass to the setter of a key: the collection with one
\* record appended or removed (lines 660, 670, 676), a theme (line 764).
SetValues(key) ==
  CASE key = "jobhunt-ops" -> {}
    [] key = "jobhunt-acts" ->
         { RemoveById(activities, id) : id \in Ids(activities) }
    [] key = "jobhunt-contacts" ->
         { RemoveById(contacts, id) : id \in Ids(contacts) }
           \cup { SavedContacts(contacts, k) : k \in {K1} \ Range(contacts) }
    [] key = "jobhunt-theme" ->
         { THEMES[i] : i \in 1..Len(THEMES) } \ {theme}

\* line 141: the setter of one sticky state is called from a handler and the
\* component renders with the new value; its effects have not run yet
setValue(key, v) ==
  /\ AllWritten
  /\ opportunities' = IF key = "jobhunt-ops" THEN v ELSE opportunities
  /\ activities' = IF key = "jobhunt-acts" THEN v ELSE activities
  /\ contacts' = IF key = "jobhunt-contacts" THEN v ELSE contacts
  /\ theme' = IF key = "jobhunt-theme" THEN v ELSE theme
  /\ hasUnsavedChanges' =
       UnsavedChangesEffect(key # "jobhunt-theme", opportunities',
                            activities', hasUnsavedChanges)
  /\ UNCHANGED << isActivityModalOpen, editingActivity, fileHandle,
                  syncStatus, conflictData, timeoutId, inFlight, picker,
                  disk, localStorage, viewVars >>

\* lines 630-634, when the effects of the last render have run
storeOpenAddActivity == AllWritten /\ openAddActivity

\* lines 642-656 up to the render: the three setters are called in one
\* handler, so the component renders once with the three new values
handleSaveActivityRender(data) ==
  /\ AllWritten
  /\ isActivityModalOpen
  /\ editingActivity # NoActivity \/ data.activity.id \notin Ids(activities)
  /\ opportunities' = WithNewOpportunity(opportunities, data)
  /\ contacts' = WithNewContacts(contacts, data)
  /\ activities' = WithActivity(activities, data)
  /\ isActivityModalOpen' = FALSE
  /\ hasUnsavedChanges' = TRUE
  /\ UNCHANGED << editingActivity, fileHandle, syncStatus, conflictData,
                  timeoutId, inFlight, picker, disk, theme, localStorage,
                  viewVars >>

\* The page is loaded again, at any time: every state is initialised anew,
\* the sticky ones from localStorage (lines 134-137)
restart ==
  /\ opportunities' = StickyInitial(<<>>, localStorage["jobhunt-ops"])
  /\ activities' = StickyInitial(<<>>, localStorage["jobhunt-acts"])
  /\ contacts' = StickyInitial(<<>>, localStorage["jobhunt-contacts"])
  /\ theme' = StickyInitial(THEMES[1], localStorage["jobhunt-theme"])
  /\ isActivityModalOpen' = FALSE
  /\ editingActivity' = NoActivity
  /\ hasUnsavedChanges' = (Len(opportunities') > 0 \/ Len(activities') > 0)
  /\ fileHandle' = "null"
  /\ syncStatus' = "idle"
  /\ conflictData' = NoConflict
  /\ timeoutId' = NoTimer
  /\ inFlight' = <<>>
  /\ picker' = NoPicker
  /\ viewMode' = "timeline"
  /\ filterText' = ""
  /\ selectedEmployer' = "All"
  /\ selectedContact' = "All"
  /\ sortConfig' = [key |-> "lastActivity", direction |-> "desc"]
  /\ columnFilters' = [employer |-> "", role |-> "", status |-> ""]
  /\ isEditing' = FALSE
  /\ formData' = NoFields
  /\ UNCHANGED << disk, localStorage >>

StoreNext ==
  \/ \E key \in KeySet : stickyEffect(key)
  \/ \E key \in KeySet : \E v \in SetValues(key) : setValue(key, v)
  \/ storeOpenAddActivity
  \/ \E data \in SaveActivityInputs : handleSaveActivityRender(data)
  \/ restart

StoreSpec == StoreInit /\ [][StoreNext]_vars

(***************************************************************************)
(* Strings of the views.  The operations on strings that the projections   *)
(* use work on the UTF-16 code units; Chars gives the code units of the    *)
(* strings that occur in the model.                                        *)
(***************************************************************************)
Chars(str) ==
  CASE str = "" -> <<>>
    [] str = "Acme" -> <<"A", "c", "m", "e">>
    [] str = "Globex" -> <<"G", "l", "o", "b", "e", "x">>
    [] str = "Engineer" -> <<"E", "n", "g", "i", "n", "e", "e", "r">>
    [] str = "Analyst" -> <<"A", "n", "a", "l", "y", "s", "t">>
    [] str = "SWE" -> <<"S", "W", "E">>
    [] str = "DA" -> <<"D", "A">>
    [] str = "Applied" -> <<"A", "p", "p", "l", "i", "e", "d">>
    [] str = "Identified" -> <<"I", "d", "e", "n", "t", "i", "f", "i", "e", "d">>
    [] str = "Applied online" -> <<"A", "p", "p", "l", "i", "e", "d", " ", "o", "n", "l", "i", "n", "e">>
    [] str = "Recruiter call" -> <<"R", "e", "c", "r", "u", "i", "t", "e", "r", " ", "c", "a", "l", "l">>
    [] str = "Phone screen" -> <<"P", "h", "o", "n", "e", " ", "s", "c", "r", "e", "e", "n">>
    [] str = "Lost lead" -> <<"L", "o", "s", "t", " ", "l", "e", "a", "d">>
    [] str = "call" -> <<"c", "a", "l", "l">>
    [] str = "acme" -> <<"a", "c", "m", "e">>
    [] str = "AC" -> <<"A", "C">>
    [] str = "glo" -> <<"g", "l", "o">>
    [] str = "sw" -> <<"s", "w">>
    [] str = "2024-01-02" -> <<"2", "0", "2", "4", "-", "0", "1", "-", "0", "2">>
    [] str = "2024-02-02" -> <<"2", "0", "2", "4", "-", "0", "2", "-", "0", "2">>
    [] str = "2024-03-01" -> <<"2", "0", "2", "4", "-", "0", "3", "-", "0", "1">>
    [] str = "0000" -> <<"0", "0", "0", "0">>

\* the code unit of each character that occurs
CodeUnits ==
  << <<" ", 32>>, <<"-", 45>>, <<"0", 48>>, <<"1", 49>>, <<"2", 50>>,
     <<"3", 51>>, <<"4", 52>>, <<"A", 65>>, <<"C", 67>>, <<"D", 68>>,
     <<"E", 69>>, <<"G", 71>>, <<"I", 73>>, <<"L", 76>>, <<"P", 80>>,
     <<"R", 82>>, <<"S", 83>>, <<"W", 87>>, <<"a", 97>>, <<"b", 98>>,
     <<"c", 99>>, <<"d", 100>>, <<"e", 101>>, <<"f", 102>>, <<"g", 103>>,
     <<"h", 104>>, <<"i", 105>>, <<"l", 108>>, <<"m", 109>>, <<"n", 110>>,
     <<"o", 111>>, <<"p", 112>>, <<"r", 114>>, <<"s", 115>>, <<"t", 116>>,
     <<"u", 117>>, <<"w", 119>>, <<"x", 120>>, <<"y", 121>> >>

CodeUnit(c) ==
  LET i == CHOOSE j \in 1..Len(CodeUnits) : CodeUnits[j][1] = c
  IN CodeUnits[i][2]

\* String.prototype.toLowerCase on code units
toLowerCase(s) ==
  LET lower(c) ==
        CASE c = "A" -> "a"
          [] c = "C" -> "c"
          [] c = "D" -> "d"
          [] c = "E" -> "e"
          [] c = "G" -> "g"
          [] c = "I" -> "i"
          [] c = "L" -> "l"
          [] c = "P" -> "p"
          [] c = "R" -> "r"
          [] c = "S" -> "s"
          [] c = "W" -> "w"
          [] OTHER -> c
  IN [i \in 1..Len(s) |-> lower(s[i])]

\* String.prototype.includes
includes(s, sub) ==
  \E i \in 0..(Len(s) - Len(sub)) : SubSeq(s, i + 1, i + Len(sub)) = sub

\* a.toLowerCase().includes(b.toLowerCase())
includesIgnoringCase(a, b) ==
  includes(toLowerCase(Chars(a)), toLowerCase(Chars(b)))

\* the relational comparison of two strings (valA < valB), by code units
RECURSIVE LessThan(_, _)
LessThan(a, b) ==
  IF b = <<>> THEN FALSE
  ELSE IF a = <<>> THEN TRUE
  ELSE IF CodeUnit(Head(a)) # CodeUnit(Head(b))
       THEN CodeUnit(Head(a)) < CodeUnit(Head(b))
       ELSE LessThan(Tail(a), Tail(b))

\* a.localeCompare(b) for strings of digits and hyphens, as the dates are
localeCompare(a, b) ==
  IF LessThan(Chars(a), Chars(b)) THEN -1
  ELSE IF LessThan(Chars(b), Chars(a)) THEN 1 ELSE 0

\* Array.prototype.sort with the comparison cmp[x, y]: a stable sort, here
\* by insertion of each element behind those that do not come after it
RECURSIVE InsertSorted(_, _, _)
InsertSorted(x, sorted, cmp) ==
  IF sorted = <<>> THEN << x >>
  ELSE IF cmp[Head(sorted), x] > 0 THEN << x >> \o sorted
  ELSE << Head(sorted) >> \o InsertSorted(x, Tail(sorted), cmp)

RECURSIVE sort(_, _)
sort(s, cmp) ==
  IF s = <<>> THEN <<>>
  ELSE InsertSorted(s[Len(s)], sort(SubSeq(s, 1, Len(s) - 1), cmp), cmp)

\* opportunities.find(o => o.id === id): Undefined or the first match
find(id) ==
  LET hits == SelectSeq(opportunities, LAMBDA o : o.id = id)
  IN IF hits = <<>> THEN Undefined ELSE Arr(hits[1])

\* line 559
employers == {"All"} \cup { opportunities[i].employer :
                              i \in 1..Len(opportunities) }

\* lines 561-564, the identifiers offered by the contact filter
uniqueContacts ==
  { c.id : c \in { k \in Range(contacts) :
                     \E a \in Range(activities) :
                       k.id \in Range(a.contactIds) } }

\* TimelineFilter without the test of line 579: an activity whose
\* opportunity is missing passes on its own fields.
TimelineFilter_KeepsOrphans(act) ==
  LET op == find(act.opportunityId)
      matchesText ==
        \/ includesIgnoringCase(act.title, filterText)
        \/ op # Undefined /\ includesIgnoringCase(op[1].employer, filterText)
        \/ includesIgnoringCase(act.description, filterText)
      matchesEmployer ==
        selectedEmployer = "All"
          \/ (op # Undefined /\ op[1].employer = selectedEmployer)
      matchesContact ==
        selectedContact = "All" \/ selectedContact \in Range(act.contactIds)
  IN matchesText /\ matchesEmployer /\ matchesContact

\* lines 577-590
TimelineFilter(act) ==
  LET op == find(act.opportunityId)
  IN IF op = Undefined THEN FALSE
     ELSE LET matchesText ==
                \/ includesIgnoringCase(act.title, filterText)
                \/ includesIgnoringCase(op[1].employer, filterText)
                \/ includesIgnoringCase(act.description, filterText)
              matchesEmployer ==
                selectedEmployer = "All" \/ op[1].employer = selectedEmployer
              matchesContact ==
                selectedContact = "All"
                  \/ selectedContact \in Range(act.contactIds)
          IN matchesText /\ matchesEmployer /\ matchesContact

\* (a, b) => b.date.localeCompare(a.date)
ByDateDescending(s) ==
  [p \in Range(s) \X Range(s) |-> localeCompare(p[2].date, p[1].date)]

\* lines 575-592
filteredActivities ==
  LET filtered == SelectSeq(activities, TimelineFilter)
  IN sort(filtered, ByDateDescending(filtered))

\* lines 595-609
RosterFilter(op) ==
  LET matchesText ==
        \/ includesIgnoringCase(op.employer, filterText)
        \/ includesIgnoringCase(op.position, filterText)
      matchesEmployer ==
        selectedEmployer = "All" \/ op.employer = selectedEmployer
      matchesColEmployer ==
        includesIgnoringCase(op.employer, columnFilters.employer)
      matchesColRole == includesIgnoringCase(op.role, columnFilters.role)
      matchesColStatus ==
        columnFilters.status = "" \/ op.status = columnFilters.status
  IN matchesText /\ matchesEmployer /\ matchesColEmployer
       /\ matchesColRole /\ matchesColStatus

\* lines 614-615: the date of the latest activity of the opportunity
lastActivity(op) ==
  LET own == SelectSeq(activities, LAMBDA ac : ac.opportunityId = op.id)
      latest == sort(own, ByDateDescending(own))
  IN IF latest = <<>> THEN "0000" ELSE latest[1].date

\* lines 612-625
RosterOrder(s) ==
  [p \in Range(s) \X Range(s) |->
     IF sortConfig.key = "lastActivity"
     THEN IF sortConfig.direction = "asc"
          THEN localeCompare(lastActivity(p[1]), lastActivity(p[2]))
          ELSE localeCompare(lastActivity(p[2]), lastActivity(p[1]))
     ELSE LET valA == toLowerCase(Chars(p[1][sortConfig.key]))
              valB == toLowerCase(Chars(p[2][sortConfig.key]))
          IN IF LessThan(valA, valB)
             THEN (IF sortConfig.direction = "asc" THEN -1 ELSE 1)
             ELSE IF LessThan(valB, valA)
             THEN (IF sortConfig.direction = "asc" THEN 1 ELSE -1)
             ELSE 0]

\* lines 594-626
filteredOpportunities ==
  LET filtered == SelectSeq(opportunities, RosterFilter)
  IN sort(filtered, RosterOrder(filtered))

(***************************************************************************)
(* The views by themselves: the page is loaded with collections stored by  *)
(* an earlier session, and the user works the filters and the table.  The  *)
(* employer and contact filters are rendered in the timeline (lines 855    *)
(* and 869), the table header with its column filters and sort keys in the *)
(* opportunities view while the roster is not empty (lines 947-949).       *)
(***************************************************************************)
ViewOpportunities == { <<>>, <<O1>>, <<O1, O2>>, <<O2, O1>> }
ViewActivities == { <<>>, <<A4>>, <<A2, A3, A1>>, <<A3, A4, A2>> }
ViewContacts == { <<>>, <<K1>> }
FilterTexts == { "", "AC", "call" }
ColumnFilterTexts ==
  [employer |-> {"", "glo"}, role |-> {"", "sw"}, status |-> {"", "Applied"}]
SortKeys == { "employer", "role", "status", "lastActivity" }

ViewInit ==
  /\ opportunities \in ViewOpportunities
  /\ activities \in ViewActivities
  /\ contacts \in ViewContacts
  /\ theme = THEMES[1]
  /\ localStorage = Committed(opportunities, activities, contacts, theme)
  /\ isActivityModalOpen = FALSE
  /\ editingActivity = NoActivity
  /\ fileHandle = "null"
  /\ syncStatus = "idle"
  /\ hasUnsavedChanges = (Len(opportunities) > 0 \/ Len(activities) > 0)
  /\ conflictData = NoConflict
  /\ timeoutId = NoTimer
  /\ inFlight = <<>>
  /\ picker = NoPicker
  /\ disk = EmptyText
  /\ InitialView
  /\ InitialForm

\* what no action of the views assigns
notViewVars == << opportunities, activities, contacts, isActivityModalOpen,
                 editingActivity, fileHandle, syncStatus, hasUnsavedChanges,
                 conflictData, timeoutId, inFlight, picker, disk, theme,
                 localStorage, formVars >>

\* lines 724 and 731
setViewMode(mode) ==
  /\ viewMode' = mode
  /\ UNCHANGED << notViewVars, filterText, selectedEmployer, selectedContact,
                  sortConfig, columnFilters >>

\* line 849
setFilterText(text) ==
  /\ filterText' = text
  /\ UNCHANGED << notViewVars, viewMode, selectedEmployer, selectedContact,
                  sortConfig, columnFilters >>

\* lines 855-866
setSelectedEmployer(emp) ==
  /\ viewMode = "timeline"
  /\ emp \in employers
  /\ selectedEmployer' = emp
  /\ UNCHANGED << notViewVars, viewMode, filterText, selectedContact,
                  sortConfig, columnFilters >>

\* lines 869-881
setSelectedContact(id) ==
  /\ viewMode = "timeline"
  /\ id \in {"All"} \cup uniqueContacts
  /\ selectedContact' = id
  /\ UNCHANGED << notViewVars, viewMode, filterText, selectedEmployer,
                  sortConfig, columnFilters >>

\* lines 976, 994 and 1010
setColumnFilters(field, text) ==
  /\ viewMode = "opportunities"
  /\ Len(filteredOpportunities) > 0
  /\ columnFilters' = [columnFilters EXCEPT ![field] = text]
  /\ UNCHANGED << notViewVars, viewMode, filterText, selectedEmployer,
                  selectedContact, sortConfig >>

\* requestSort carrying the direction over to a newly selected key.
requestSort_KeepsDirection(key) ==
  /\ viewMode = "opportunities"
  /\ Len(filteredOpportunities) > 0
  /\ sortConfig' =
       [key |-> key,
        direction |-> IF sortConfig.key # key THEN sortConfig.direction
                      ELSE IF sortConfig.direction = "asc"
                      THEN "desc" ELSE "asc"]
  /\ UNCHANGED << notViewVars, viewMode, filterText, selectedEmployer,
                  selectedContact, columnFilters >>

\* lines 567-573, called from the table header (lines 965-1020)
requestSort(key) ==
  /\ viewMode = "opportunities"
  /\ Len(filteredOpportunities) > 0
  /\ sortConfig' =
       [key |-> key,
        direction |-> IF sortConfig.key = key /\ sortConfig.direction = "asc"
                      THEN "desc" ELSE "asc"]
  /\ UNCHANGED << notViewVars, viewMode, filterText, selectedEmployer,
                  selectedContact, columnFilters >>

ViewNext ==
  \/ \E mode \in {"timeline", "opportunities"} : setViewMode(mode)
  \/ \E text \in FilterTexts : setFilterText(text)
  \/ \E emp \in employers : setSelectedEmployer(emp)
  \/ \E id \in {"All"} \cup uniqueContacts : setSelectedContact(id)
  \/ \E field \in DOMAIN ColumnFilterTexts :
       \E text \in ColumnFilterTexts[field] : setColumnFilters(field, text)
  \/ \E key \in SortKeys : requestSort(key)

ViewSpec == ViewInit /\ [][ViewNext]_vars

(***************************************************************************)
(* The activity form by itself: opened empty or on an activity of the      *)
(* list, saved or closed.  The form is a dialog over the page, so the      *)
(* list's buttons are reached only while it is closed.  What the form      *)
(* submits is taken from the description of its finalization: an edited    *)
(* activity keeps its identifier, a new one carries a fresh identifier.    *)
(***************************************************************************)
EditActivities == { <<>>, <<A1>>, <<A2, A3, A1>> }
EditedTitles == { "Follow-up" }
NewActivities == { A1, A2, A3 }

EditInit ==
  /\ opportunities = <<O1, O2>>
  /\ activities \in EditActivities
  /\ contacts = <<K1>>
  /\ theme = THEMES[1]
  /\ localStorage = Committed(opportunities, activities, contacts, theme)
  /\ isActivityModalOpen = FALSE
  /\ editingActivity = NoActivity
  /\ fileHandle = "null"
  /\ syncStatus = "idle"
  /\ hasUnsavedChanges = TRUE
  /\ conflictData = NoConflict
  /\ timeoutId = NoTimer
  /\ inFlight = <<>>
  /\ picker = NoPicker
  /\ disk = EmptyText
  /\ InitialView
  /\ InitialForm

\* lines 636-640, called from an activity of the list
openEditActivity(activity) ==
  /\ ~isActivityModalOpen
  /\ activity \in Range(activities)
  /\ editingActivity' = activity
  /\ isActivityModalOpen' = TRUE
  /\ UNCHANGED << opportunities, activities, contacts, fileHandle,
                  syncStatus, hasUnsavedChanges, conflictData, timeoutId,
                  inFlight, picker, disk >>
  /\ UNCHANGED << theme, viewVars >>
  /\ stickyEffects

\* line 1209: onClose of the activity form
onClose ==
  /\ isActivityModalOpen
  /\ isActivityModalOpen' = FALSE
  /\ UNCHANGED << opportunities, activities, contacts, editingActivity,
                  fileHandle, syncStatus, hasUnsavedChanges, conflictData,
                  timeoutId, inFlight, picker, disk >>
  /\ UNCHANGED << theme, viewVars >>
  /\ stickyEffects

\* What the form submits: the activity it was opened on with its fields as
\* edited, or a new activity.
FormInputs ==
  IF editingActivity # NoActivity
  THEN { [activity |-> [editingActivity EXCEPT !.title = t],
          newOpportunity |-> Undefined, newContacts |-> <<>>] :
           t \in EditedTitles \cup {editingActivity.title} }
  ELSE { [activity |-> a, newOpportunity |-> Undefined, newContacts |-> <<>>] :
           a \in { x \in NewActivities : x.id \notin Ids(activities) } }

EditNext ==
  \/ openAddActivity
  \/ \E activity \in Range(activities) : openEditActivity(activity)
  \/ onClose
  \/ \E data \in FormInputs : handleSaveActivity(data)
  \/ \E id \in Ids(activities) :
       ~isActivityModalOpen /\ handleDeleteActivity(id)

EditSpec == EditInit /\ [][EditNext]_vars

(***************************************************************************)
(* The contacts dialog (ContactsModal.tsx) while it is open: the list of   *)
(* contacts with its edit and delete buttons, and the form, rendered while *)
(* isEditing.  formData is a function from the names of the properties the *)
(* object has to their values; a property that was never set is not in its *)
(* domain.  onSave is handleSaveContact and onDelete is handleDeleteContact *)
(* (lines 1200-1201 of the App).                                           *)
(***************************************************************************)
FormContacts == { <<>>, <<K2>> }
FieldTexts ==
  [name |-> {"", "Ann"}, company |-> {"", "Initech"}, role |-> {""},
   email |-> {"ann@initech.example"}, notes |-> {"referral"}]
FreshContactIds == { "k9" }      \* values of uuidv4()

ContactInit ==
  /\ opportunities = <<>>
  /\ activities = <<>>
  /\ contacts \in FormContacts
  /\ theme = THEMES[1]
  /\ localStorage = Committed(opportunities, activities, contacts, theme)
  /\ isActivityModalOpen = FALSE
  /\ editingActivity = NoActivity
  /\ fileHandle = "null"
  /\ syncStatus = "idle"
  /\ hasUnsavedChanges = FALSE
  /\ conflictData = NoConflict
  /\ timeoutId = NoTimer
  /\ inFlight = <<>>
  /\ picker = NoPicker
  /\ disk = EmptyText
  /\ InitialView
  /\ InitialForm

\* what no handler of the form assigns
notFormVars == << opportunities, activities, contacts, isActivityModalOpen,
                 editingActivity, fileHandle, syncStatus, hasUnsavedChanges,
                 conflictData, timeoutId, inFlight, picker, disk, theme,
                 localStorage, viewMode, filterText, selectedEmployer,
                 selectedContact, sortConfig, columnFilters >>

\* ContactsModal.tsx, lines 24-27
handleEdit(contact) ==
  /\ contact \in Range(contacts)
  /\ formData' = contact
  /\ isEditing' = TRUE
  /\ UNCHANGED notFormVars

\* ContactsModal.tsx, lines 29-32; the button is rendered while ~isEditing
handleAddNew ==
  /\ ~isEditing
  /\ formData' = NoFields
  /\ isEditing' = TRUE
  /\ UNCHANGED notFormVars

\* ContactsModal.tsx, lines 72-88: setFormData({...formData, [field]: value})
setFormData(field, value) ==
  /\ isEditing
  /\ formData' = [f \in DOMAIN formData \cup {field} |->
                    IF f = field THEN value ELSE formData[f]]
  /\ UNCHANGED << isEditing, notFormVars >>

\* ContactsModal.tsx, line 92: the Cancel button
cancelEditing ==
  /\ isEditing
  /\ isEditing' = FALSE
  /\ UNCHANGED << formData, notFormVars >>

\* formData[f] as JavaScript reads it in a condition or before ||
Filled(f) == f \in DOMAIN formData /\ formData[f] # ""
FieldOr(f, default) == IF Filled(f) THEN formData[f] ELSE default

\* ValidForm testing the name only.
ValidForm_NameOnly == Filled("name")

\* ContactsModal.tsx, line 35
ValidForm == Filled("name") /\ Filled("company")

\* ContactsModal.tsx, lines 36-43: the object passed to onSave.  It has no
\* phone property; email and notes are those of formData, undefined if it
\* has none.
SubmittedContact(freshId) ==
  [f \in {"id", "name", "role", "company"}
          \cup ({"email", "notes"} \cap DOMAIN formData) |->
     CASE f = "id" -> FieldOr("id", freshId)
       [] f = "role" -> FieldOr("role", "Contact")
       [] f \in {"name", "company"} -> FieldOr(f, "")
       [] OTHER -> formData[f]]

\* ContactsModal.tsx, lines 34-47, with the effects of handleSaveContact
\* (lines 664-672 of the App), which it calls as onSave
handleSave ==
  /\ isEditing
  /\ IF ValidForm
     THEN \E id \in (IF Filled("id") THEN {formData.id}
                     ELSE FreshContactIds \ Ids(contacts)) :
            /\ contacts' = SavedContacts(contacts, SubmittedContact(id))
            /\ hasUnsavedChanges' =
                 UnsavedChangesEffect(TRUE, opportunities, activities,
                                      hasUnsavedChanges)
            /\ timeoutId' = AutoSaveEffect(TRUE, fileHandle, conflictData,
                              opportunities, activities, contacts')
            /\ formData' = NoFields
            /\ isEditing' = FALSE
            /\ UNCHANGED << opportunities, activities, isActivityModalOpen,
                            editingActivity, fileHandle, syncStatus,
                            conflictData, inFlight, picker, disk, theme,
                            viewMode, filterText, selectedEmployer,
                            selectedContact, sortConfig, columnFilters >>
            /\ stickyEffects
     ELSE UNCHANGED vars

ContactNext ==
  \/ \E contact \in Range(contacts) : handleEdit(contact)
  \/ handleAddNew
  \/ \E field \in DOMAIN FieldTexts :
       \E value \in FieldTexts[field] : setFormData(field, value)
  \/ cancelEditing
  \/ handleSave
  \/ \E id \in Ids(contacts) : handleDeleteContact(id)

ContactSpec == ContactInit /\ [][ContactNext]_vars

TypeOK ==
  /\ fileHandle \in {"null", "file"}
  /\ syncStatus \in {"idle", "saving", "saved", "error"}
  /\ hasUnsavedChanges \in BOOLEAN
  /\ Len(inFlight) <= MaxInFlight


(***************************************************************************)
(* Vocabulary of the properties.                                           *)
(***************************************************************************)
store == << opportunities, activities, contacts >>

AwaitingUserChoice == Truthy(conflictData)
Converged == fileHandle # "null" /\ ~Truthy(conflictData)
Unconnected == fileHandle = "null" /\ ~Truthy(conflictData)

\* A step in which processFileContent runs on the given text.
Processes(text) ==
  /\ picker.open
  /\ picker.live => text = disk
  /\ processFileContent(text, picker.live)

ProcessStep == connectFileRead \/ manualImportLoad

Selectable == SampleTexts \cup {disk}

\* A step of a handler that sets one of the collections on a user's edit.
EditStep ==
  \/ \E data \in SaveActivityInputs : handleSaveActivity(data)
  \/ \E id \in Ids(activities) : handleDeleteActivity(id)
  \/ \E contact \in {K1} : handleSaveContact(contact)
  \/ \E id \in Ids(contacts) : handleDeleteContact(id)

Scheduled(snapshot) == [armed |-> TRUE, data |-> snapshot]

\* The collections a file carries.  The format names them opportunities,
\* activities and contacts and admits ops and acts as synonyms, so a
\* collection present under both names has two readings.
Readings(current, legacy) ==
  IF current = Undefined /\ legacy = Undefined
  THEN { <<>> }
  ELSE { x[1] : x \in {current, legacy} \ {Undefined} }
FileOpportunities(fd) == Readings(fd.opportunities, fd.ops)
FileActivities(fd) == Readings(fd.activities, fd.acts)
FileContacts(fd) == Readings(fd.contacts, Undefined)
FileHasOpportunity(fd) == \E r \in FileOpportunities(fd) : Len(r) > 0

\* A text that saveData or the download produces.
IsSnapshotText(text) ==
  /\ text.kind = "json"
  /\ text.val.kind = "object"
  /\ text.val.opportunities # Undefined
  /\ text.val.activities # Undefined
  /\ text.val.contacts # Undefined
  /\ text = Stringify(text.val.opportunities[1], text.val.activities[1],
                      text.val.contacts[1])


(***************************************************************************)
(* C1.  Conflict correctness: whenever the store holds at least one        *)
(* opportunity when processFileContent runs, then for every file content   *)
(* the engine enters AwaitingUserChoice and none of the three collections  *)
(* changes.                                                                *)
(***************************************************************************)
C1_ConflictWheneverLocalData ==
  [][(ProcessStep /\ Len(opportunities) > 0)
       => (AwaitingUserChoice' /\ store' = store)]_vars

(***************************************************************************)
(* C2.  When the store has no opportunity and the selected file has at     *)
(* least one, processing its content installs the file's three collections *)
(* and raises no conflict; with a granted handle the handle is connected   *)
(* and the status is 'saved'.                                              *)
(***************************************************************************)
C2_SilentAdoption ==
  [][\A text \in Selectable :
       (Processes(text) /\ Len(opportunities) = 0
          /\ FileHasOpportunity(ParseFile(text)))
       => /\ opportunities' \in FileOpportunities(ParseFile(text))
          /\ activities' \in FileActivities(ParseFile(text))
          /\ contacts' \in FileContacts(ParseFile(text))
          /\ ~AwaitingUserChoice'
          /\ picker.live => (Converged' /\ syncStatus' = "saved")]_vars

\* The scenario of the spec: the file's one opportunity adopted by a live
\* connect, the handle connected, no conflict.
C2_Witness ==
  /\ opportunities = <<O2>>
  /\ activities = <<A2>>
  /\ contacts = <<>>
  /\ Converged
  /\ syncStatus = "saved"
  /\ disk = Stringify(<<O2>>, <<A2>>, <<>>)
  /\ inFlight = <<>>
  /\ timeoutId.armed

(***************************************************************************)
(* C3.  Round trip: when every collection of the store is empty and the    *)
(* text processed is the serialization of three collections, the store     *)
(* holds exactly those three collections afterwards.                       *)
(***************************************************************************)
C3_RoundTrip ==
  [][\A text \in Selectable :
       (Processes(text) /\ IsSnapshotText(text)
          /\ store = << <<>>, <<>>, <<>> >>)
       => store' = << text.val.opportunities[1], text.val.activities[1],
                      text.val.contacts[1] >>]_vars


(***************************************************************************)
(* C4.  In AwaitingUserChoice the dialog's localStats are the in-memory    *)
(* counts and its fileStats are the counts of the file's collections;      *)
(* "import file" replaces the three collections by the file's content, of  *)
(* the sizes the dialog showed, and clears the conflict.                   *)
(***************************************************************************)
C4_ImportReplaces ==
  [][handleImportFile =>
       /\ localStats.ops = Len(opportunities)
       /\ localStats.acts = Len(activities)
       /\ opportunities' \in FileOpportunities(conflictData)
       /\ activities' \in FileActivities(conflictData)
       /\ contacts' \in FileContacts(conflictData)
       /\ fileStats.ops = Len(opportunities')
       /\ fileStats.acts = Len(activities')
       /\ conflictData' = NoConflict]_vars

\* The scenario of the spec before the choice: one local opportunity (Acme),
\* a file with one opportunity (Globex), the dialog showing 1 and 1.
C4_Witness ==
  /\ AwaitingUserChoice
  /\ opportunities = <<O1>>
  /\ FileOpportunities(conflictData) = { <<O2>> }
  /\ localStats.ops = 1
  /\ fileStats.ops = 1

(***************************************************************************)
(* C5.  "Keep local" leaves the three collections unchanged and discards   *)
(* the parsed file content.  With a handle granted the engine is Converged *)
(* on that handle and a write of the local snapshot is scheduled; without  *)
(* one it is Unconnected and nothing is scheduled.                         *)
(***************************************************************************)
C5_KeepLocal ==
  [][handleKeepLocal =>
       /\ store' = store
       /\ conflictData' = NoConflict
       /\ fileHandle' = fileHandle
       /\ disk' = disk
       /\ fileHandle # "null"
            => (Converged' /\ timeoutId' = Scheduled(store))
       /\ fileHandle = "null"
            => (Unconnected' /\ ~timeoutId'.armed)]_vars

\* Local data kept over a file that holds Globex: the handle is connected,
\* the file is not yet overwritten and the write of the local snapshot is
\* scheduled.
C5_Witness ==
  /\ opportunities = <<O1>>
  /\ Converged
  /\ syncStatus = "idle"
  /\ disk = Stringify(<<O2>>, <<A2>>, <<>>)
  /\ timeoutId = Scheduled(store)
  /\ inFlight = <<>>

(***************************************************************************)
(* C6.  "Cancel" returns to Unconnected: the handle and the pending file   *)
(* content are dropped, the collections are unchanged, and no write to the *)
(* selected file results from the attempt: none is scheduled or in flight  *)
(* while the conflict is shown, and none while no handle is connected.     *)
(***************************************************************************)
C6_Cancel ==
  /\ [][onCancel =>
          /\ Unconnected'
          /\ conflictData' = NoConflict
          /\ store' = store
          /\ disk' = disk
          /\ ~timeoutId'.armed
          /\ inFlight' = <<>>]_vars
  /\ [][(AwaitingUserChoice \/ fileHandle = "null") => disk' = disk]_vars
  /\ []((AwaitingUserChoice \/ fileHandle = "null")
          => (~timeoutId.armed /\ inFlight = <<>>))

\* A conflict raised by a live connect: the handle is held and the dialog,
\* with its cancel button, is shown.
C6_Witness ==
  /\ AwaitingUserChoice
  /\ fileHandle = "file"
  /\ Len(opportunities) > 0
  /\ ~timeoutId.armed
  /\ inFlight = <<>>

(***************************************************************************)
(* C7.  While Converged, every change to a collection schedules a write of *)
(* the snapshot of all three collections.  A pending timer always carries  *)
(* the snapshot after the last change, a write starts only when the timer  *)
(* fires, and firing disarms it: a burst of changes within the debounce    *)
(* window produces exactly one write, of the last snapshot.                *)
(***************************************************************************)
C7_Debounce ==
  /\ [][(EditStep /\ Converged) => timeoutId' = Scheduled(store')]_vars
  /\ [](timeoutId.armed => timeoutId.data = store)
  /\ [][IF saveData
        THEN /\ inFlight' = Append(inFlight, store)
             /\ ~timeoutId'.armed
        ELSE Len(inFlight') <= Len(inFlight)]_vars

\* After a connect to an empty file all three collections were changed and
\* the timer fired once: one write in flight, carrying the last snapshot,
\* and no timer pending.
C7_Witness ==
  /\ Converged
  /\ inFlight = << store >>
  /\ ~timeoutId.armed
  /\ opportunities = <<O1>>
  /\ activities = <<A1>>
  /\ contacts = <<K1>>
  /\ disk = EmptyText

(***************************************************************************)
(* C8.  At no time are two sync writes to the connected file in flight.    *)
(***************************************************************************)
C8_OneWriteInFlight == Len(inFlight) <= 1

(***************************************************************************)
(* C9.  A failed write sets the status to 'error' and changes neither the  *)
(* collections, the handle nor a pending timer.  The failure is not        *)
(* sticky: in status 'error' a change still schedules a write, the timer   *)
(* still starts one, and a write that succeeds sets the status to 'saved'. *)
(***************************************************************************)
C9_WriteFailure ==
  /\ [][(\E i \in 1..MaxInFlight : saveDataRejected(i)) =>
          /\ syncStatus' = "error"
          /\ store' = store
          /\ fileHandle' = fileHandle
          /\ conflictData' = conflictData
          /\ timeoutId' = timeoutId
          /\ disk' = disk]_vars
  /\ [][(syncStatus = "error" /\ EditStep /\ Converged)
          => timeoutId' = Scheduled(store')]_vars
  /\ []((syncStatus = "error" /\ timeoutId.armed
           /\ Len(inFlight) < MaxInFlight) => ENABLED saveData)
  /\ [][(\E i \in 1..MaxInFlight : saveDataResolved(i))
          => syncStatus' = "saved"]_vars

\* After a failed write, with nothing else in flight, a change has scheduled
\* the next write.
C9_Witness ==
  /\ syncStatus = "error"
  /\ inFlight = <<>>
  /\ Converged
  /\ timeoutId = Scheduled(store)
  /\ Len(contacts) > 0

(***************************************************************************)
(* C10.  Idempotence: a live connect that resolves without a conflict      *)
(* arms no debounce timer, so that no write follows when the collections   *)
(* are not changed afterwards.                                             *)
(***************************************************************************)
C10_NoSpuriousWrite ==
  [][(connectFileRead /\ Converged') => ~timeoutId'.armed]_vars

(***************************************************************************)
(* C11.  After a file is adopted silently into a store without             *)
(* opportunities, and after "import file", hasUnsavedChanges is false once *)
(* the effects of the replacement have run, with and without a handle, and *)
(* a step that changes no collection does not set it.                      *)
(***************************************************************************)
SilentAdoption ==
  ProcessStep /\ Len(opportunities) = 0 /\ Len(opportunities') > 0

C11_MarkedClean ==
  /\ [][(SilentAdoption \/ handleImportFile) => ~hasUnsavedChanges']_vars
  /\ [][(~hasUnsavedChanges /\ store' = store) => ~hasUnsavedChanges']_vars

(***************************************************************************)
(* C12.  Store durability: when a set of a collection or of the theme has  *)
(* returned, localStorage holds the new value under the key, and a restart *)
(* at any time reloads each collection and the theme as they were in       *)
(* memory.                                                                 *)
(***************************************************************************)
C12_SynchronousDurability ==
  /\ [][\A key \in KeySet : \A v \in SetValues(key) :
          setValue(key, v) => localStorage'[key] = JSONstringify(v)]_vars
  /\ [][restart => (store' = store /\ theme' = theme)]_vars

(***************************************************************************)
(* C20.  Finalization sequencing: when a save adds an activity together    *)
(* with a new opportunity or new contacts, the activity is never in memory *)
(* without them, and at the moment the activity is written to its key      *)
(* every opportunity and contact of the store that it references is        *)
(* already written, so that a restart at any time finds them.              *)
(***************************************************************************)
StoredUnder(key) == StickyInitial(<<>>, localStorage[key])

C20_CommitOrder ==
  /\ [][\A data \in SaveActivityInputs :
          handleSaveActivityRender(data) =>
            /\ data.activity \in Range(activities')
            /\ data.newOpportunity # Undefined
                 => data.newOpportunity[1] \in Range(opportunities')
            /\ Range(data.newContacts) \subseteq Range(contacts')]_vars
  /\ [][stickyEffect("jobhunt-acts") =>
          \A a \in Range(StoredUnder("jobhunt-acts")') :
            /\ a.opportunityId \in Ids(opportunities)
                 => a.opportunityId \in Ids(StoredUnder("jobhunt-ops")')
            /\ \A id \in Range(a.contactIds) :
                 id \in Ids(contacts)
                   => id \in Ids(StoredUnder("jobhunt-contacts")')]_vars

(***************************************************************************)
(* C13.  Every change a handler makes to one of the three collections      *)
(* leaves hasUnsavedChanges true: an append, a replacement, a deletion, a  *)
(* change of the contacts alone, and a change that leaves opportunities    *)
(* and activities empty.                                                   *)
(***************************************************************************)
C13_EverySetMarksDirty ==
  [][EditStep => hasUnsavedChanges']_vars

(***************************************************************************)
(* C14.  A file that carries its records under ops and acts only is        *)
(* reconciled as the file with the same records under opportunities and    *)
(* activities: the same emptiness decision, the same collections adopted,  *)
(* the same counts in the conflict dialog and the same collections         *)
(* imported.                                                               *)
(***************************************************************************)
LegacyOnly(fd) ==
  /\ Truthy(fd)
  /\ fd.opportunities = Undefined /\ fd.activities = Undefined
  /\ fd.ops # Undefined \/ fd.acts # Undefined

\* the same file with the records under the current names
Renamed(fd) == Obj(fd.ops, Undefined, fd.acts, Undefined, fd.contacts)

C14_LegacySynonyms ==
  /\ [][\A text \in Selectable :
          (Processes(text) /\ LegacyOnly(ParseFile(text))) =>
            LET fd == ParseFile(text)
                current == Renamed(fd)
            IN /\ FileHasData(fd) = FileHasData(current)
               /\ (~picker.localHasData /\ FileHasData(current))
                    => store' = << AdoptedOpportunities(current),
                                   AdoptedActivities(current),
                                   AdoptedContacts(current) >>
               /\ (~picker.localHasData /\ ~FileHasData(current))
                    => store' = store
               /\ picker.localHasData
                    => (store' = store /\ conflictData' = fd)]_vars
  /\ []((AwaitingUserChoice /\ LegacyOnly(conflictData))
          => fileStats = FileStats(Renamed(conflictData)))
  /\ [][(handleImportFile /\ LegacyOnly(conflictData)) =>
          store' = << ImportedOpportunities(Renamed(conflictData)),
                      ImportedActivities(Renamed(conflictData)),
                      ImportedContacts(Renamed(conflictData)) >>]_vars

\* A legacy file with one opportunity and one activity was selected over a
\* store with Acme: the dialog shows one and one for the file.
C14_Witness ==
  /\ AwaitingUserChoice
  /\ LegacyOnly(conflictData)
  /\ conflictData.ops = Arr(<<O2>>)
  /\ fileStats = [ops |-> 1, acts |-> 1]
  /\ opportunities = <<O1>>

(***************************************************************************)
(* C15.  Parsing tolerance: a text that is empty, is not JSON, or is JSON  *)
(* but not an object is processed exactly as the empty text is: as a file  *)
(* of three empty collections, with the outcome that file has and without  *)
(* a change to the collections.                                            *)
(***************************************************************************)
NotAFile(text) == text.kind \in {"empty", "bad"} \/ ~Truthy(text.val)

C15_ParsingTolerance ==
  [][\A text \in Selectable :
       (Processes(text) /\ NotAFile(text))
         => (store' = store /\ processFileContent(EmptyText, picker.live))]_vars

(***************************************************************************)
(* C19.  No cascading delete: deleting an activity removes the activities  *)
(* with that identifier, keeps the others in their order and leaves        *)
(* opportunities and contacts unchanged; deleting a contact removes the    *)
(* contacts with that identifier, keeps the others in their order and      *)
(* leaves opportunities and every activity, with its contactIds,           *)
(* unchanged.                                                              *)
(***************************************************************************)
Without(s, id) == SelectSeq(s, LAMBDA x : x.id # id)

C19_NoCascade ==
  /\ [][\A id \in Ids(activities) :
          handleDeleteActivity(id) =>
            /\ activities' = Without(activities, id)
            /\ id \notin Ids(activities')
            /\ opportunities' = opportunities
            /\ contacts' = contacts]_vars
  /\ [][\A id \in Ids(contacts) :
          handleDeleteContact(id) =>
            /\ contacts' = Without(contacts, id)
            /\ id \notin Ids(contacts')
            /\ opportunities' = opportunities
            /\ activities' = activities]_vars

\* The activity logged for Acme, which names Sarah, was deleted: Acme and
\* Sarah are still there.
C19_Witness ==
  /\ opportunities = <<O1>>
  /\ activities = <<>>
  /\ contacts = <<K1>>

(***************************************************************************)
(* C16.  Sort toggle: a request for the key that is selected flips the     *)
(* direction, a request for another key selects it in ascending order;     *)
(* the first configuration is (lastActivity, descending).                  *)
(***************************************************************************)
Flipped(direction) == IF direction = "asc" THEN "desc" ELSE "asc"

C16_SortToggle ==
  [][\A key \in SortKeys :
       requestSort(key) =>
         IF sortConfig.key = key
         THEN sortConfig' = [key |-> key,
                             direction |-> Flipped(sortConfig.direction)]
         ELSE sortConfig' = [key |-> key, direction |-> "asc"]]_vars

\* The employer column was requested twice in a row.
C16_Witness ==
  /\ sortConfig = [key |-> "employer", direction |-> "desc"]
  /\ viewMode = "opportunities"

(***************************************************************************)
(* C17.  Timeline projection: the result consists of exactly the           *)
(* activities whose opportunityId is the identifier of an opportunity and  *)
(* that pass the text, employer and contact filters, each once, in         *)
(* descending lexical order of the date, those of equal date in the order  *)
(* of the activities collection; it is empty when a collection it joins is *)
(* empty.                                                                  *)
(***************************************************************************)
Owner(act) ==
  CHOOSE o \in Range(opportunities) : o.id = act.opportunityId

Shown(act) ==
  /\ act.opportunityId \in Ids(opportunities)
  /\ \E field \in { act.title, Owner(act).employer, act.description } :
       includesIgnoringCase(field, filterText)
  /\ selectedEmployer \in { "All", Owner(act).employer }
  /\ selectedContact \in {"All"} \cup Range(act.contactIds)

C17_TimelineProjection ==
  LET result == filteredActivities
      passing == { i \in 1..Len(activities) : Shown(activities[i]) }
  IN /\ Len(result) = Cardinality(passing)
     /\ \E from \in [1..Len(result) -> passing] :
          /\ \A p \in 1..Len(result) : result[p] = activities[from[p]]
          /\ \A p, q \in 1..Len(result) :
               p < q =>
                 \/ LessThan(Chars(result[q].date), Chars(result[p].date))
                 \/ /\ result[q].date = result[p].date
                    /\ from[p] < from[q]
     /\ (activities = <<>> \/ opportunities = <<>>) => result = <<>>

\* The text filter "AC" over three activities: the one logged for Acme is
\* shown; the one whose description matches but whose opportunity is
\* missing is not, and it is still in the collection.
C17_Witness ==
  /\ opportunities = <<O1, O2>>
  /\ activities = <<A3, A4, A2>>
  /\ filterText = "AC"
  /\ selectedEmployer = "All" /\ selectedContact = "All"
  /\ filteredActivities = <<A3>>

(***************************************************************************)
(* C18.  Roster membership: the roster consists of exactly the             *)
(* opportunities that pass the text filter on employer and position, the   *)
(* column filters on employer and role and the status filter; no other     *)
(* state, such as the employer selected for the timeline before the roster *)
(* is opened, removes an opportunity from it.                              *)
(***************************************************************************)
Listed(op) ==
  /\ \E field \in { op.employer, op.position } :
       includesIgnoringCase(field, filterText)
  /\ includesIgnoringCase(op.employer, columnFilters.employer)
  /\ includesIgnoringCase(op.role, columnFilters.role)
  /\ columnFilters.status \in { "", op.status }

C18_RosterMembership ==
  viewMode = "opportunities" =>
    /\ Range(filteredOpportunities)
         = { op \in Range(opportunities) : Listed(op) }
    /\ Len(filteredOpportunities) = Cardinality(Range(filteredOpportunities))

(***************************************************************************)
(* C21.  Through every change of the opportunities collection (a save of a *)
(* new opportunity, an adoption, an import) no identifier is carried by    *)
(* two different records: not by two elements of the collection, and an    *)
(* identifier that stays in the collection keeps its record, with its      *)
(* createdAt.                                                              *)
(***************************************************************************)
C21_StableIdentifiers ==
  /\ [](\A i, j \in 1..Len(opportunities) :
          opportunities[i].id = opportunities[j].id => i = j)
  /\ [][\A o \in Range(opportunities) : \A n \in Range(opportunities') :
          o.id = n.id => o.createdAt = n.createdAt]_vars

(***************************************************************************)
(* C27.  An opportunity added to the store after a one-shot import was     *)
(* started and before its file read completes is not overwritten: when the *)
(* content of a file with an opportunity is processed, the conflict prompt *)
(* is raised and the added opportunity is still in memory.                 *)
(***************************************************************************)
AddedSinceSelection == ~picker.localHasData /\ Len(opportunities) > 0

C27_FreshEmptinessTest ==
  [][\A text \in SampleTexts :
       (manualImportLoad /\ Processes(text) /\ AddedSinceSelection
          /\ FileHasOpportunity(ParseFile(text)))
       => /\ AwaitingUserChoice'
          /\ Range(opportunities) \subseteq Range(opportunities')]_vars

(***************************************************************************)
(* C28.  One file content, one result: silent adoption into a store        *)
(* without opportunities installs the opportunities and activities that    *)
(* import would install from the same content, import installs those that  *)
(* adoption would install, and the file count of the conflict prompt is    *)
(* the number of opportunities that import installs.                       *)
(***************************************************************************)
C28_OneContentOneResult ==
  /\ [][\A text \in Selectable :
          (Processes(text) /\ SilentAdoption)
          => /\ opportunities' = ImportedOpportunities(ParseFile(text))
             /\ activities' = ImportedActivities(ParseFile(text))]_vars
  /\ [][handleImportFile
          => /\ opportunities' = AdoptedOpportunities(conflictData)
             /\ activities' = AdoptedActivities(conflictData)
             /\ fileStats.ops = Len(opportunities')]_vars

(***************************************************************************)
(* C25.  No silent data loss on connect: when the read of a connected file *)
(* completes without a conflict prompt, the emptiness test being that of   *)
(* the store as it is, every activity and contact in memory before is in   *)
(* memory afterwards, and every record of the file is in memory or no      *)
(* write that lacks it is scheduled.                                       *)
(***************************************************************************)
KeptIn(readings, collection) ==
  \A r \in readings : Range(r) \subseteq Range(collection)

C25_NoSilentLoss ==
  [][(connectFileRead /\ ~AwaitingUserChoice'
        /\ picker.localHasData = (Len(opportunities) > 0))
       => /\ Range(activities) \subseteq Range(activities')
          /\ Range(contacts) \subseteq Range(contacts')
          /\ timeoutId'.armed
               => /\ KeptIn(FileOpportunities(ParseFile(disk)),
                            timeoutId'.data[1])
                  /\ KeptIn(FileActivities(ParseFile(disk)),
                            timeoutId'.data[2])
                  /\ KeptIn(FileContacts(ParseFile(disk)),
                            timeoutId'.data[3])]_vars

(***************************************************************************)
(* C24.  While a conflict is pending with a handle attached, no debounce   *)
(* timer is armed and no write is in flight, whatever edit is made to the  *)
(* collections in that state, and the file is not written: its content     *)
(* changes only after keep-local or import has cleared the conflict.       *)
(***************************************************************************)
PendingWithHandle == AwaitingUserChoice /\ fileHandle = "file"

C24_NoWriteWhilePending ==
  /\ [](PendingWithHandle => (~timeoutId.armed /\ inFlight = <<>>))
  /\ [][(PendingWithHandle /\ EditStep)
          => (PendingWithHandle' /\ ~timeoutId'.armed /\ inFlight' = <<>>)]_vars
  /\ [][disk' # disk => ~PendingWithHandle]_vars

\* A conflict pending on a connected handle, and a contact saved since: the
\* contact is in memory only, no timer is armed.
C24_Witness ==
  /\ PendingWithHandle
  /\ contacts = <<K1>>
  /\ K1 \notin UNION {Range(r) : r \in FileContacts(conflictData)}
  /\ hasUnsavedChanges
  /\ ~timeoutId.armed

Settled == Converged /\ ~timeoutId.armed /\ inFlight = <<>>

C26_LastWriterWins ==
  Settled => disk = Stringify(opportunities, activities, contacts)

(***************************************************************************)
(* C22.  Saving an activity being edited replaces its prior version by     *)
(* identifier match: the collection keeps its length and order, exactly    *)
(* one element carries the identifier and it is the saved activity, every  *)
(* other element is unchanged.  Saving a new activity appends it as the    *)
(* last element and changes no other.                                      *)
(***************************************************************************)
Replaced(prev, next, activity) ==
  /\ Len(next) = Len(prev)
  /\ \A i \in 1..Len(prev) : next[i].id = prev[i].id
  /\ Cardinality({ i \in 1..Len(next) : next[i].id = activity.id }) = 1
  /\ \A i \in 1..Len(next) :
       next[i] = IF next[i].id = activity.id THEN activity ELSE prev[i]

C22_ReplaceOrAppend ==
  [][\A data \in FormInputs :
       handleSaveActivity(data)
       => IF editingActivity # NoActivity
          THEN Replaced(activities, activities', data.activity)
          ELSE /\ Len(activities') = Len(activities) + 1
               /\ activities'[Len(activities')] = data.activity
               /\ SubSeq(activities', 1, Len(activities)) = activities]_vars

\* The second of three activities saved from the form with a new title, in
\* its place.
C22_Witness ==
  /\ ~isActivityModalOpen
  /\ editingActivity = A3
  /\ activities = <<A2, [A3 EXCEPT !.title = "Follow-up"], A1>>

(***************************************************************************)
(* C23.  Contact validation: a save of the contact form whose name or      *)
(* company is missing has no effect, the contacts are unchanged and the    *)
(* form stays open with its data; with both present the contact is saved,  *)
(* under its identifier when one is edited and under a fresh identifier,   *)
(* as the last element, when it is new.                                    *)
(***************************************************************************)
Entered(f) == f \in DOMAIN formData /\ formData[f] # ""

C23_ContactValidation ==
  [][handleSave =>
       IF Entered("name") /\ Entered("company")
       THEN /\ ~isEditing'
            /\ \E i \in 1..Len(contacts') :
                 /\ contacts'[i].name = formData.name
                 /\ contacts'[i].company = formData.company
                 /\ IF Entered("id")
                    THEN contacts'[i].id = formData.id
                    ELSE /\ contacts'[i].id \notin Ids(contacts)
                         /\ i = Len(contacts) + 1
                         /\ SubSeq(contacts', 1, Len(contacts)) = contacts
       ELSE /\ contacts' = contacts
            /\ isEditing'
            /\ formData' = formData
            /\ UNCHANGED vars]_vars

\* A new contact saved from the form, after the one there was.
C23_Witness ==
  /\ ~isEditing
  /\ Len(contacts) = 2
  /\ contacts[1] = K2
  /\ contacts[2].id \in FreshContactIds
  /\ contacts[2].name = "Ann"
  /\ contacts[2].company = "Initech"

(***************************************************************************)
(* C30.  Editing loses nothing: a contact of the list opened in the form   *)
(* and saved with no field changed leaves the contacts collection as it    *)
(* was, every field of the record included.                                *)
(***************************************************************************)
C30_EditLosesNothing ==
  [][(handleSave /\ formData \in Range(contacts)) => contacts' = contacts]_vars

=============================================================================
